---- MODULE Spec2Model ----
(***************************************************************************)
(* SEO audit-and-scoring engine (services/seo-analyzer.server) and the     *)
(* scan request handlers that persist its result.                          *)
(*                                                                         *)
(* Strings are modelled by their length; NULL is the JavaScript null.      *)
(* A nullable object (featuredImage, article.seo) that is null is NullObj. *)
(***************************************************************************)
EXTENDS Integers, Sequences, FiniteSets, TLC

NULL == -1

NullObj == [isNull |-> TRUE]

\* variant: only null is falsy (a test against null instead of truthiness)
TruthyNonNull(s) == s # NULL

\* JavaScript truthiness of a string-or-null value: null and "" are falsy.
Truthy(s) == s # NULL /\ s # 0

\* s.length of a string
Length(s) == s

Max(a, b) == IF a >= b THEN a ELSE b

Min(a, b) == IF a <= b THEN a ELSE b

\* Number of elements of the array s that satisfy Test (Array.filter(..).length,
\* and the forEach loops that increment a counter once per matching element).
CountIf(s, Test(_)) == Cardinality({i \in 1..Len(s) : Test(s[i])})

\* Sum of F(s[i]) over the array s, accumulated left to right as forEach does.
SumOver(s, F(_)) ==
  LET acc[i \in 0..Len(s)] == IF i = 0 THEN 0 ELSE acc[i - 1] + F(s[i])
  IN  acc[Len(s)]

RECURSIVE Flatten(_)
\* blogs.forEach(blog => blog.articles.forEach(a => articles.push(a)))
Flatten(blogs) ==
  IF blogs = <<>> THEN <<>> ELSE Head(blogs) \o Flatten(Tail(blogs))

(***************************************************************************)
(* Thresholds of the rule evaluator.                                       *)
(***************************************************************************)
ProductShortDescription == 100
CollectionShortDescription == 50
PageShortContent == 100
ArticleShortContent == 500
CriticalPenalty == 15
WarningPenalty == 5
AltTextPenalty == 2
PerformanceScore == 80
ImagesPerProduct == 10

(***************************************************************************)
(* Rule predicates, one per `if` of the four forEach loops.                *)
(***************************************************************************)
\* variant: the fallback product title is not consulted
ProductMissingSeoTitleOnly(product) == ~Truthy(product.seo.title)

ProductMissingMetaTitle(product) ==
  ~Truthy(product.seo.title) /\ ~Truthy(product.title)

ProductMissingMetaDescription(product) == ~Truthy(product.seo.description)

\* variant: the article threshold applied to a product body
ProductShortDescriptionTestLong(product) ==
  Truthy(product.descriptionHtml)
    /\ Length(product.descriptionHtml) < ArticleShortContent

ProductShortDescriptionTest(product) ==
  Truthy(product.descriptionHtml)
    /\ Length(product.descriptionHtml) < ProductShortDescription

\* variant: altText === null
ImageWithoutAltStrict(img) == img.altText = NULL

ImageWithoutAlt(img) == ~Truthy(img.altText)

\* variant: one violation per product that has any image without alt text
ProductHasMissingAltText(product) ==
  IF CountIf(product.images, ImageWithoutAlt) > 0
       \/ (product.featuredImage # NullObj
             /\ ~Truthy(product.featuredImage.altText))
  THEN 1 ELSE 0

\* per product: imagesWithoutAlt, plus one for a featured image without alt text
ProductMissingAltText(product) ==
  LET imagesWithoutAlt == CountIf(product.images, ImageWithoutAlt)
  IN  (IF imagesWithoutAlt > 0 THEN imagesWithoutAlt ELSE 0)
        + (IF product.featuredImage # NullObj
                /\ ~Truthy(product.featuredImage.altText)
           THEN 1 ELSE 0)

CollectionMissingMetaTitle(collection) == ~Truthy(collection.seo.title)

CollectionMissingMetaDescription(collection) ==
  ~Truthy(collection.seo.description)

CollectionMissingDescription(collection) ==
  ~Truthy(collection.descriptionHtml)
    \/ Length(collection.descriptionHtml) < CollectionShortDescription

\* variant: <= in place of <
PageMissingContentInclusive(page) ==
  ~Truthy(page.body) \/ Length(page.body) <= PageShortContent

PageMissingContent(page) ==
  ~Truthy(page.body) \/ Length(page.body) < PageShortContent

\* article.seo?.title : undefined (falsy) when article.seo is null
ArticleMissingMetaTitle(article) ==
  IF article.seo = NullObj THEN TRUE ELSE ~Truthy(article.seo.title)

ArticleMissingMetaDescription(article) ==
  IF article.seo = NullObj THEN TRUE ELSE ~Truthy(article.seo.description)

ArticleShortContentTest(article) ==
  Truthy(article.contentHtml)
    /\ Length(article.contentHtml) < ArticleShortContent

(***************************************************************************)
(* The violation counters.                                                 *)
(***************************************************************************)
\* variant: the collection title rule also runs over the products
CountersCrossed(products, collections, pages, articles) ==
  [ productsMissingMetaTitle |-> CountIf(products, ProductMissingMetaTitle),
    productsMissingMetaDescription |->
      CountIf(products, ProductMissingMetaDescription),
    productsMissingAltText |-> SumOver(products, ProductMissingAltText),
    productsShortDescription |-> CountIf(products, ProductShortDescriptionTest),
    collectionsMissingMetaTitle |->
      CountIf(products \o collections, CollectionMissingMetaTitle),
    collectionsMissingMetaDescription |->
      CountIf(collections, CollectionMissingMetaDescription),
    collectionsMissingDescription |->
      CountIf(collections, CollectionMissingDescription),
    pagesMissingContent |-> CountIf(pages, PageMissingContent),
    articlesMissingMetaTitle |-> CountIf(articles, ArticleMissingMetaTitle),
    articlesMissingMetaDescription |->
      CountIf(articles, ArticleMissingMetaDescription),
    articlesShortContent |-> CountIf(articles, ArticleShortContentTest) ]

Counters(products, collections, pages, articles) ==
  [ productsMissingMetaTitle |-> CountIf(products, ProductMissingMetaTitle),
    productsMissingMetaDescription |->
      CountIf(products, ProductMissingMetaDescription),
    productsMissingAltText |-> SumOver(products, ProductMissingAltText),
    productsShortDescription |-> CountIf(products, ProductShortDescriptionTest),
    collectionsMissingMetaTitle |->
      CountIf(collections, CollectionMissingMetaTitle),
    collectionsMissingMetaDescription |->
      CountIf(collections, CollectionMissingMetaDescription),
    collectionsMissingDescription |->
      CountIf(collections, CollectionMissingDescription),
    pagesMissingContent |-> CountIf(pages, PageMissingContent),
    articlesMissingMetaTitle |-> CountIf(articles, ArticleMissingMetaTitle),
    articlesMissingMetaDescription |->
      CountIf(articles, ArticleMissingMetaDescription),
    articlesShortContent |-> CountIf(articles, ArticleShortContentTest) ]

(***************************************************************************)
(* Issue synthesis.  The description text of an issue is fixed per id and  *)
(* is left out of the record.                                              *)
(***************************************************************************)
Issue(id, type, category, title, affectedPages, resourceType) ==
  [ id |-> id, type |-> type, category |-> category, title |-> title,
    affectedPages |-> affectedPages, resourceType |-> resourceType,
    fixable |-> TRUE ]

\* variant: a success issue carries affectedPages: 0
GoodIssueCounted(id, category, title) ==
  [ id |-> id, type |-> "success", category |-> category, title |-> title,
    affectedPages |-> 0, fixable |-> FALSE ]

GoodIssue(id, category, title) ==
  [ id |-> id, type |-> "success", category |-> category, title |-> title,
    fixable |-> FALSE ]

\* variant: one issue per violating resource
PushEach(counter, issue) == [k \in 1..counter |-> issue]

\* variant: if (counter > 1)
PushIfSeveral(counter, issue) == IF counter > 1 THEN <<issue>> ELSE <<>>

\* if (counter > 0) issues.push(issue)
PushIf(counter, issue) == IF counter > 0 THEN <<issue>> ELSE <<>>

Issues(c) ==
     PushIf(c.productsMissingMetaTitle,
            Issue("products-meta-title", "critical", "content",
                  "Products missing meta title",
                  c.productsMissingMetaTitle, "product"))
  \o PushIf(c.productsMissingMetaDescription,
            Issue("products-meta-description", "critical", "content",
                  "Products missing meta description",
                  c.productsMissingMetaDescription, "product"))
  \o PushIf(c.productsMissingAltText,
            Issue("products-alt-text", "warning", "accessibility",
                  "Product images missing alt text",
                  c.productsMissingAltText, "product"))
  \o PushIf(c.productsShortDescription,
            Issue("products-short-description", "warning", "content",
                  "Products with short descriptions",
                  c.productsShortDescription, "product"))
  \o PushIf(c.collectionsMissingMetaTitle,
            Issue("collections-meta-title", "critical", "content",
                  "Collections missing meta title",
                  c.collectionsMissingMetaTitle, "collection"))
  \o PushIf(c.collectionsMissingMetaDescription,
            Issue("collections-meta-description", "warning", "content",
                  "Collections missing meta description",
                  c.collectionsMissingMetaDescription, "collection"))
  \o PushIf(c.collectionsMissingDescription,
            Issue("collections-description", "warning", "content",
                  "Collections missing description",
                  c.collectionsMissingDescription, "collection"))
  \o PushIf(c.pagesMissingContent,
            Issue("pages-content", "warning", "content",
                  "Pages with insufficient content",
                  c.pagesMissingContent, "page"))
  \o PushIf(c.articlesMissingMetaTitle,
            Issue("articles-meta-title", "warning", "content",
                  "Blog posts missing meta title",
                  c.articlesMissingMetaTitle, "article"))
  \o PushIf(c.articlesMissingMetaDescription,
            Issue("articles-meta-description", "warning", "content",
                  "Blog posts missing meta description",
                  c.articlesMissingMetaDescription, "article"))
  \o PushIf(c.articlesShortContent,
            Issue("articles-short-content", "warning", "content",
                  "Blog posts with short content",
                  c.articlesShortContent, "article"))

\* variant: the counters are not tested
GoodResultsUnconditional(c, products) ==
  IF Len(products) > 0
  THEN << GoodIssue("products-meta-title-good", "content",
                    "All products have meta titles"),
          GoodIssue("products-alt-text-good", "accessibility",
                    "All product images have alt text") >>
  ELSE <<>>

\* variant: the products.length > 0 guards are missing
GoodResultsUnguarded(c, products) ==
     (IF c.productsMissingMetaTitle = 0
      THEN <<GoodIssue("products-meta-title-good", "content",
                       "All products have meta titles")>>
      ELSE <<>>)
  \o (IF c.productsMissingAltText = 0
      THEN <<GoodIssue("products-alt-text-good", "accessibility",
                       "All product images have alt text")>>
      ELSE <<>>)

GoodResults(c, products) ==
     (IF c.productsMissingMetaTitle = 0 /\ Len(products) > 0
      THEN <<GoodIssue("products-meta-title-good", "content",
                       "All products have meta titles")>>
      ELSE <<>>)
  \o (IF c.productsMissingAltText = 0 /\ Len(products) > 0
      THEN <<GoodIssue("products-alt-text-good", "accessibility",
                       "All product images have alt text")>>
      ELSE <<>>)

(***************************************************************************)
(* Score aggregation.                                                      *)
(***************************************************************************)
\* variant: the lower clamp is missing
ClampAbove(x) == Min(100, x)

\* Math.max(0, Math.min(100, x))
\* variant: Math.abs in place of Math.max(0, ...)
ClampAbs(x) == Min(100, IF x < 0 THEN 0 - x ELSE x)

Clamp(x) == Max(0, Min(100, x))

\* variant: Math.floor in place of Math.round
FloorThird(sum) == sum \div 3

\* Math.round(sum / 3) for an integer sum >= 0: floor(sum/3 + 1/2)
RoundThird(sum) == (2 * sum + 3) \div 6

\* variant: a critical issue costs as much as a warning
ContentScoreUniformPenalty(criticalIssues, warnings) ==
  Clamp(100 - (criticalIssues * WarningPenalty) - (warnings * WarningPenalty))

ContentScore(criticalIssues, warnings) ==
  Clamp(100 - (criticalIssues * CriticalPenalty) - (warnings * WarningPenalty))

\* variant: one point per missing alt text
AccessibilityScoreSinglePenalty(productsMissingAltText) ==
  Clamp(IF productsMissingAltText > 0
        THEN 100 - productsMissingAltText
        ELSE 100)

AccessibilityScore(productsMissingAltText) ==
  Clamp(IF productsMissingAltText > 0
        THEN 100 - (productsMissingAltText * AltTextPenalty)
        ELSE 100)

\* variant: the performance score is left out of the sum
OverallScoreUnweighted(contentScore, accessibilityScore, performanceScore) ==
  RoundThird(contentScore + accessibilityScore)

OverallScore(contentScore, accessibilityScore, performanceScore) ==
  RoundThird(contentScore + accessibilityScore + performanceScore)

\* variant: every issue that is not a success counts as critical
IsNotSuccess(i) == i.type # "success"

IsCritical(i) == i.type = "critical"

\* variant: only content-category warnings are counted
IsContentWarning(i) == i.type = "warning" /\ i.category = "content"

IsWarning(i) == i.type = "warning"

\* variant: [...goodResults, ...issues]
GoodResultsFirst(issues, goodResults) == goodResults \o issues

\* issues: [...issues, ...goodResults]
AllIssues(issues, goodResults) == issues \o goodResults

\* analyzeStoreSEO from the point where the four lists are available.
analyzeStoreSEO(products, collections, pages, articles) ==
  LET c == Counters(products, collections, pages, articles)
      issues == Issues(c)
      goodResults == GoodResults(c, products)
      criticalIssues == CountIf(issues, IsCritical)
      warnings == CountIf(issues, IsWarning)
      contentScore == ContentScore(criticalIssues, warnings)
      accessibilityScore == AccessibilityScore(c.productsMissingAltText)
      performanceScore == PerformanceScore
  IN  [ overallScore |->
          OverallScore(contentScore, accessibilityScore, performanceScore),
        contentScore |-> contentScore,
        performanceScore |-> performanceScore,
        accessibilityScore |-> accessibilityScore,
        criticalIssues |-> criticalIssues,
        improvements |-> warnings,
        goodResults |-> Len(goodResults),
        issues |-> AllIssues(issues, goodResults),
        crawledPages |->
          Len(products) + Len(collections) + Len(pages) + Len(articles) ]

(***************************************************************************)
(* Resource lists the analyzer is run on.  Every field a rule reads takes  *)
(* null, the empty string and lengths on both sides of its threshold.      *)
(***************************************************************************)
MaxProducts == 5
MaxResources == 2

SeqUpTo(S, n) == UNION {[1..k -> S] : k \in 0..n}

MetaValues == {NULL, 0, 5}

Seo == [title : MetaValues, description : MetaValues]

Image == [altText : MetaValues]

BodiesAround(threshold) == {NULL, 0, 10, threshold - 1, threshold, threshold + 50}

ProductNodes ==
  [ title : {0, 5}, seo : Seo,
    descriptionHtml : BodiesAround(ProductShortDescription),
    featuredImage : {NullObj} \cup Image,
    images : SeqUpTo(Image, 1) ]

CollectionNodes ==
  [ seo : Seo, descriptionHtml : BodiesAround(CollectionShortDescription) ]

PageNodes == [ body : BodiesAround(PageShortContent) ]

ArticleNodes ==
  [ seo : {NullObj} \cup Seo, contentHtml : BodiesAround(ArticleShortContent) ]

CleanProduct ==
  [ title |-> 5, seo |-> [title |-> 5, description |-> 5],
    descriptionHtml |-> 150, featuredImage |-> [altText |-> 5],
    images |-> <<[altText |-> 5]>> ]

BareProduct ==
  [ title |-> 5, seo |-> [title |-> NULL, description |-> NULL],
    descriptionHtml |-> 10, featuredImage |-> NullObj,
    images |-> <<[altText |-> NULL]>> ]

\* a product with n images, none of which has alt text
GalleryProduct(n, featured) ==
  [ title |-> 5, seo |-> [title |-> 5, description |-> 5],
    descriptionHtml |-> 150, featuredImage |-> featured,
    images |-> [i \in 1..n |-> [altText |-> NULL]] ]

BulkProducts ==
  { BareProduct,
    GalleryProduct(ImagesPerProduct - 1, NullObj),
    GalleryProduct(ImagesPerProduct, NullObj),
    GalleryProduct(ImagesPerProduct, [altText |-> NULL]) }

CleanCollection ==
  [ seo |-> [title |-> 5, description |-> 5], descriptionHtml |-> 100 ]

BareCollection ==
  [ seo |-> [title |-> NULL, description |-> NULL], descriptionHtml |-> 0 ]

CleanPage == [ body |-> 150 ]

BarePage == [ body |-> 10 ]

CleanArticle ==
  [ seo |-> [title |-> 5, description |-> 5], contentHtml |-> 600 ]

BareArticle ==
  [ seo |-> [title |-> NULL, description |-> NULL], contentHtml |-> 10 ]

SampleProducts == {<<>>, <<BareProduct>>}

SampleCollections == {<<>>, <<BareCollection>>}

SamplePages == {<<>>, <<BarePage>>}

SampleArticles == {<<>>, <<BareArticle>>}

Input(p, c, g, a) ==
  [ products |-> p, collections |-> c, pages |-> g, articles |-> a ]

\* one resource of one type over its whole domain, the other lists sampled
SingleInputs ==
  { Input(<<n>>, c, g, a) :
      n \in ProductNodes, c \in SampleCollections,
      g \in SamplePages, a \in SampleArticles }
  \cup { Input(p, <<n>>, g, a) :
      p \in SampleProducts, n \in CollectionNodes,
      g \in SamplePages, a \in SampleArticles }
  \cup { Input(p, c, <<n>>, a) :
      p \in SampleProducts, c \in SampleCollections,
      n \in PageNodes, a \in SampleArticles }
  \cup { Input(p, c, g, <<n>>) :
      p \in SampleProducts, c \in SampleCollections,
      g \in SamplePages, n \in ArticleNodes }

\* many products, with up to ImagesPerProduct images each
BulkInputs ==
  { Input(p, c, <<>>, <<>>) :
      p \in SeqUpTo(BulkProducts, MaxProducts), c \in SampleCollections }

\* several collections, pages and articles at once
MixedInputs ==
  { Input(p, c, g, a) :
      p \in SampleProducts,
      c \in SeqUpTo({CleanCollection, BareCollection}, MaxResources),
      g \in SeqUpTo({CleanPage, BarePage}, MaxResources),
      a \in SeqUpTo({CleanArticle, BareArticle}, MaxResources) }

\* a product that violates every product rule, with all its images
WorstProduct ==
  [ title |-> 0, seo |-> [title |-> NULL, description |-> NULL],
    descriptionHtml |-> 10, featuredImage |-> [altText |-> NULL],
    images |-> [i \in 1..ImagesPerProduct |-> [altText |-> NULL]] ]

\* a store in which every rule is violated and more than 50 alt texts lack
WorstInputs ==
  { Input([i \in 1..MaxProducts |-> WorstProduct],
          <<BareCollection>>, <<BarePage>>, <<BareArticle>>) }

Inputs == SingleInputs \cup BulkInputs \cup MixedInputs \cup WorstInputs

(***************************************************************************)
(* State.                                                                  *)
(*   products, collections, pages, articles : the lists one analysis run   *)
(*       has fetched;  analysis : the SEOAnalysisResult it returned        *)
(*   stores, seoScans : the Store and SEOScan tables                       *)
(*   now : the clock that stamps createdAt / lastScanAt and issues ids     *)
(*   req : the requests in flight                                          *)
(*   blogPosts : the BlogPost table                                        *)
(*   hook : the APP_UNINSTALLED webhook in flight                          *)
(***************************************************************************)
VARIABLES products, collections, pages, articles, analysis,
          stores, seoScans, now, req, blogPosts, hook

vars == <<products, collections, pages, articles, analysis,
          stores, seoScans, now, req, blogPosts, hook>>

analyzerVars == <<products, collections, pages, articles, analysis>>

scanVars == <<stores, seoScans, now, req, blogPosts, hook>>

NumRequests == 2

Requests == 1..NumRequests

IdleRequest ==
  [ pc |-> "start", shop |-> NULL, result |-> NullObj, store |-> NULL,
    threw |-> FALSE, nodata |-> {}, input |-> NullObj ]

IdleHook == [ pc |-> "start", store |-> NULL ]

ScanIdle ==
  /\ stores = {}
  /\ seoScans = {}
  /\ now = 1
  /\ req = [r \in Requests |-> IdleRequest]
  /\ blogPosts = {}
  /\ hook = IdleHook

(***************************************************************************)
(* The analyzer as a function of its four lists.                           *)
(***************************************************************************)
Init ==
  /\ \E in \in Inputs :
       /\ products = in.products
       /\ collections = in.collections
       /\ pages = in.pages
       /\ articles = in.articles
  /\ analysis = NullObj
  /\ ScanIdle

Analyze ==
  /\ analysis = NullObj
  /\ analysis' = analyzeStoreSEO(products, collections, pages, articles)
  /\ UNCHANGED <<products, collections, pages, articles>>
  /\ UNCHANGED scanVars

Next == Analyze

Spec == Init /\ [][Next]_vars

(***************************************************************************)
(* The scan action of the routes and the persistence of its result.        *)
(*                                                                         *)
(* A GraphQL call of analyzeStoreSEO either throws (network or HTTP error, *)
(* or a body that is not JSON), or answers without a data member, or       *)
(* answers with the nodes of the store.  The calls touch no table, so one  *)
(* action takes the four of them; every prisma call is an action of its    *)
(* own, because other requests run between two awaits.                     *)
(***************************************************************************)
Shops == {"a.myshopify.com"}

Throw == [kind |-> "throw"]

NoData == [kind |-> "nodata"]

Data(nodes) == [kind |-> "data", nodes |-> nodes]

ProductResponses ==
  {Throw, NoData, Data(<<BareProduct>>), Data(<<CleanProduct, BareProduct>>)}

CollectionResponses == {Throw, NoData, Data(<<BareCollection>>)}

PageResponses == {Throw, NoData, Data(<<BarePage>>)}

\* the blogs of the store, each with its articles
BlogResponses == {Throw, NoData, Data(<< <<BareArticle>> >>)}

\* data.data?.products?.edges?.map((e) => e.node) || []
NodesOf(response) ==
  IF response.kind = "data" THEN response.nodes ELSE <<>>

\* const articles = []; data.data?.blogs?.edges?.forEach(... articles.push ...)
ArticlesOf(response) ==
  IF response.kind = "data" THEN Flatten(response.nodes) ELSE <<>>

\* variant: a call that throws is caught and its list taken as empty
RunAnalysisCatching(pr, cr, gr, br) ==
  [ pc |-> "findStore",
    result |-> analyzeStoreSEO(NodesOf(pr), NodesOf(cr), NodesOf(gr),
                               ArticlesOf(br)) ]

\* variant: the overall score is one lower once a store row exists
RunAnalysisBlended(pr, cr, gr, br) ==
  IF Throw \in {pr, cr, gr, br}
  THEN [ pc |-> "failed", result |-> NullObj ]
  ELSE LET result == analyzeStoreSEO(NodesOf(pr), NodesOf(cr), NodesOf(gr),
                                     ArticlesOf(br))
       IN  [ pc |-> "findStore",
             result |-> [result EXCEPT !.overallScore =
                           IF stores = {} THEN @ ELSE @ - 1] ]

\* const result = await analyzeStoreSEO(admin, shop): an exception of any of
\* the four calls leaves the action; otherwise the result goes on to be saved.
RunAnalysis(pr, cr, gr, br) ==
  IF Throw \in {pr, cr, gr, br}
  THEN [ pc |-> "failed", result |-> NullObj ]
  ELSE [ pc |-> "findStore",
         result |-> analyzeStoreSEO(NodesOf(pr), NodesOf(cr), NodesOf(gr),
                                    ArticlesOf(br)) ]

\* prisma.store.findUnique({ where: { shop } }); shop is a unique column
FindStore(shop) ==
  IF \E s \in stores : s.shop = shop
  THEN CHOOSE s \in stores : s.shop = shop
  ELSE NullObj

\* a Store row as prisma.store.create({ data: { shop } }) inserts it; NULL is
\* the column's default
NewStore(id, shop) ==
  [ id |-> id, shop |-> shop, seoScore |-> NULL, lastScanAt |-> NULL ]

\* an SEOScan row as prisma.sEOScan.create inserts it
NewScan(storeId, result, createdAt) ==
  [ storeId |-> storeId,
    overallScore |-> result.overallScore,
    contentScore |-> result.contentScore,
    performanceScore |-> result.performanceScore,
    accessibilityScore |-> result.accessibilityScore,
    criticalIssues |-> result.criticalIssues,
    improvements |-> result.improvements,
    goodResults |-> result.goodResults,
    issues |-> result.issues,
    crawledPages |-> result.crawledPages,
    createdAt |-> createdAt ]

RECURSIVE OrderByCreatedAtAsc(_)
\* variant: orderBy: { createdAt: "asc" }
OrderByCreatedAtAsc(rows) ==
  IF rows = {} THEN <<>>
  ELSE LET first == CHOOSE x \in rows : \A y \in rows : y.createdAt >= x.createdAt
       IN  <<first>> \o OrderByCreatedAtAsc(rows \ {first})

RECURSIVE OrderByCreatedAtDesc(_)
\* orderBy: { createdAt: "desc" }
OrderByCreatedAtDesc(rows) ==
  IF rows = {} THEN <<>>
  ELSE LET first == CHOOSE x \in rows : \A y \in rows : y.createdAt <= x.createdAt
       IN  <<first>> \o OrderByCreatedAtDesc(rows \ {first})

\* take: n
Take(rows, n) == SubSeq(rows, 1, Min(n, Len(rows)))

\* getLatestScan: store?.seoScans[0] || null
getLatestScan(shop) ==
  LET store == FindStore(shop)
  IN  IF store = NullObj
      THEN NullObj
      ELSE LET scansOfStore == {x \in seoScans : x.storeId = store.id}
               included == Take(OrderByCreatedAtDesc(scansOfStore), 1)
           IN  IF included = <<>> THEN NullObj ELSE included[1]

InitScan ==
  /\ products = <<>>
  /\ collections = <<>>
  /\ pages = <<>>
  /\ articles = <<>>
  /\ analysis = NullObj
  /\ ScanIdle

\* the responses one run of analyzeStoreSEO gets: at most one of its four
\* calls throws or answers without data
Responses ==
  { rs \in [ products : ProductResponses, collections : CollectionResponses,
             pages : PageResponses, blogs : BlogResponses ] :
      Cardinality({n \in DOMAIN rs : rs[n].kind # "data"}) <= 1 }

\* what analyzeStoreSEO does on each of these
RunOn == [ rs \in Responses |->
             RunAnalysis(rs.products, rs.collections, rs.pages, rs.blogs) ]

\* action(): authenticate, read the form, await analyzeStoreSEO(admin, shop)
ScanAnalyze(r) ==
  /\ req[r].pc = "start"
  /\ \A q \in Requests : q < r => req[q].pc # "start"
  /\ \E shop \in Shops, rs \in Responses :
       LET out == RunOn[rs]
       IN  req' = [req EXCEPT ![r] =
                     [ pc |-> out.pc, shop |-> shop, result |-> out.result,
                       store |-> NULL,
                       threw |-> \E n \in DOMAIN rs : rs[n] = Throw,
                       nodata |-> {n \in DOMAIN rs : rs[n] = NoData},
                       input |-> IF out.pc = "failed" THEN NullObj ELSE rs ]]
  /\ UNCHANGED <<stores, seoScans, now>>
  /\ UNCHANGED <<analyzerVars, blogPosts, hook>>

\* saveAnalysisResult: let store = await prisma.store.findUnique(...)
SaveFindStore(r) ==
  /\ req[r].pc = "findStore"
  /\ LET store == FindStore(req[r].shop)
     IN  req' = [req EXCEPT ![r] =
                   IF store = NullObj
                   THEN [@ EXCEPT !.pc = "createStore"]
                   ELSE [@ EXCEPT !.pc = "createScan", !.store = store.id]]
  /\ UNCHANGED <<stores, seoScans, now>>
  /\ UNCHANGED <<analyzerVars, blogPosts, hook>>

\* saveAnalysisResult: store = await prisma.store.create({ data: { shop } });
\* the insert is rejected when a row with this shop exists by now
SaveCreateStore(r) ==
  /\ req[r].pc = "createStore"
  /\ IF FindStore(req[r].shop) # NullObj
     THEN /\ req' = [req EXCEPT ![r].pc = "failed"]
          /\ UNCHANGED <<stores, now>>
     ELSE /\ stores' = stores \cup {NewStore(now, req[r].shop)}
          /\ now' = now + 1
          /\ req' = [req EXCEPT ![r].pc = "createScan", ![r].store = now]
  /\ UNCHANGED seoScans
  /\ UNCHANGED <<analyzerVars, blogPosts, hook>>

\* saveAnalysisResult: await prisma.sEOScan.create(...); storeId refers to a
\* Store row, and the insert is rejected when that row is gone
SaveCreateScan(r) ==
  /\ req[r].pc = "createScan"
  /\ IF \E s \in stores : s.id = req[r].store
     THEN /\ seoScans' = seoScans \cup
               {NewScan(req[r].store, req[r].result, now)}
          /\ now' = now + 1
          /\ req' = [req EXCEPT ![r].pc = "updateStore"]
     ELSE /\ req' = [req EXCEPT ![r].pc = "failed"]
          /\ UNCHANGED <<seoScans, now>>
  /\ UNCHANGED stores
  /\ UNCHANGED <<analyzerVars, blogPosts, hook>>

\* saveAnalysisResult: await prisma.store.update(...); then the action returns.
\* The update is rejected when no row has this id.
SaveUpdateStore(r) ==
  /\ req[r].pc = "updateStore"
  /\ IF \E s \in stores : s.id = req[r].store
     THEN /\ stores' =
               { IF s.id = req[r].store
                 THEN [s EXCEPT !.seoScore = req[r].result.overallScore,
                                !.lastScanAt = now]
                 ELSE s : s \in stores }
          /\ req' = [req EXCEPT ![r].pc = "done", ![r].result = NullObj,
                                 ![r].store = NULL, ![r].input = NullObj]
     ELSE /\ stores' = stores
          /\ req' = [req EXCEPT ![r].pc = "failed"]
  /\ now' = now
  /\ UNCHANGED seoScans
  /\ UNCHANGED <<analyzerVars, blogPosts, hook>>

NextScan ==
  \E r \in Requests :
    \/ ScanAnalyze(r)
    \/ SaveFindStore(r)
    \/ SaveCreateStore(r)
    \/ SaveCreateScan(r)
    \/ SaveUpdateStore(r)

SpecScan == InitScan /\ [][NextScan]_vars

(***************************************************************************)
(* The generate action of the content-optimization route.  The action      *)
(* reads the store once, and the LLM call and each prisma call is an       *)
(* action of its own; any of them can throw, which the try block turns     *)
(* into a failure response.                                                *)
(***************************************************************************)
MaxCredits == 2

\* a Store row with its aiCredits column
StoreWithCredits(id, shop, aiCredits) ==
  [ id |-> id, shop |-> shop, seoScore |-> NULL, lastScanAt |-> NULL,
    aiCredits |-> aiCredits ]

\* a BlogPost row as prisma.blogPost.create inserts it
NewBlogPost(id, storeId, keyword) ==
  [ id |-> id, storeId |-> storeId, primaryKeyword |-> keyword,
    status |-> "draft" ]

InitBlog ==
  /\ products = <<>>
  /\ collections = <<>>
  /\ pages = <<>>
  /\ articles = <<>>
  /\ analysis = NullObj
  /\ seoScans = {}
  /\ now = 2
  /\ req = [r \in Requests |-> IdleRequest]
  /\ blogPosts = {}
  /\ hook = IdleHook
  /\ \/ stores = {}
     \/ \E shop \in Shops, aiCredits \in 0..MaxCredits :
          stores = {StoreWithCredits(1, shop, aiCredits)}

\* data: { aiCredits: { decrement: 1 } } on the row with this id
Decrement(rows, id) ==
  { IF s.id = id THEN [s EXCEPT !.aiCredits = @ - 1] ELSE s : s \in rows }

\* action(): store = await prisma.store.findUnique(...); the store is missing,
\* or has no credit left, or the generation goes on with the row as read
GenerateStart(r) ==
  /\ req[r].pc = "start"
  /\ \E shop \in Shops :
       LET store == FindStore(shop)
       IN  req' = [req EXCEPT ![r] =
                     IF store = NullObj
                     THEN [@ EXCEPT !.pc = "notFound", !.shop = shop]
                     ELSE IF store.aiCredits <= 0
                     THEN [@ EXCEPT !.pc = "refused", !.shop = shop]
                     ELSE [@ EXCEPT !.pc = "generate", !.shop = shop,
                                    !.store = store.id]]
  /\ UNCHANGED <<stores, seoScans, now, blogPosts, hook>>
  /\ UNCHANGED analyzerVars

\* the products query and await generateBlogPost(...): returns or throws
GenerateBlogPost(r) ==
  /\ req[r].pc = "generate"
  /\ \E returned \in BOOLEAN :
       req' = [req EXCEPT ![r].pc = IF returned THEN "createPost" ELSE "failed"]
  /\ UNCHANGED <<stores, seoScans, now, blogPosts, hook>>
  /\ UNCHANGED analyzerVars

\* await prisma.blogPost.create(...), with the keyword of the request: the
\* row is inserted, or the write throws
CreateBlogPost(r) ==
  /\ req[r].pc = "createPost"
  /\ \E written \in BOOLEAN :
       IF written /\ \E s \in stores : s.id = req[r].store
       THEN /\ blogPosts' = blogPosts \cup {NewBlogPost(now, req[r].store, r)}
            /\ now' = now + 1
            /\ req' = [req EXCEPT ![r].pc = "deduct"]
       ELSE /\ req' = [req EXCEPT ![r].pc = "failed"]
            /\ UNCHANGED <<blogPosts, now>>
  /\ UNCHANGED <<stores, seoScans, hook>>
  /\ UNCHANGED analyzerVars

\* await prisma.store.update({ ... decrement: 1 }): the row is updated, or the
\* write throws; then the action returns
DeductCredit(r) ==
  /\ req[r].pc = "deduct"
  /\ \E written \in BOOLEAN :
       IF written /\ \E s \in stores : s.id = req[r].store
       THEN /\ stores' = Decrement(stores, req[r].store)
            /\ req' = [req EXCEPT ![r].pc = "done"]
       ELSE /\ req' = [req EXCEPT ![r].pc = "failed"]
            /\ UNCHANGED stores
  /\ UNCHANGED <<seoScans, now, blogPosts, hook>>
  /\ UNCHANGED analyzerVars

NextBlog ==
  \E r \in Requests :
    \/ GenerateStart(r)
    \/ GenerateBlogPost(r)
    \/ CreateBlogPost(r)
    \/ DeductCredit(r)

SpecBlog == InitBlog /\ [][NextBlog]_vars

(***************************************************************************)
(* The APP_UNINSTALLED webhook, for a request in which authenticate.webhook *)
(* returned admin and session, next to scans whose analysis has returned   *)
(* and whose saveAnalysisResult is still to run.                           *)
(***************************************************************************)
SampleResult == analyzeStoreSEO(<<BareProduct>>, <<>>, <<>>, <<>>)

InitUninstall ==
  /\ products = <<>>
  /\ collections = <<>>
  /\ pages = <<>>
  /\ articles = <<>>
  /\ analysis = NullObj
  /\ \E shop \in Shops :
       /\ stores = {NewStore(1, shop)}
       /\ req = [r \in Requests |->
                   [IdleRequest EXCEPT !.pc = "findStore", !.shop = shop,
                                       !.result = SampleResult]]
  /\ seoScans \in {{}, {NewScan(1, SampleResult, 2)}}
  /\ now = 3
  /\ blogPosts = {}
  /\ hook = IdleHook

\* const store = await prisma.store.findUnique({ where: { shop } })
HookFindStore ==
  /\ hook.pc = "start"
  /\ \E shop \in Shops :
       LET store == FindStore(shop)
       IN  hook' = IF store = NullObj
                   THEN [hook EXCEPT !.pc = "deleteSessions"]
                   ELSE [pc |-> "deleteScans", store |-> store.id]
  /\ UNCHANGED <<stores, seoScans, now, req, blogPosts>>
  /\ UNCHANGED analyzerVars

\* await prisma.sEOScan.deleteMany({ where: { storeId: store.id } })
HookDeleteScans ==
  /\ hook.pc = "deleteScans"
  /\ seoScans' = {x \in seoScans : x.storeId # hook.store}
  /\ hook' = [hook EXCEPT !.pc = "deleteBlogPosts"]
  /\ UNCHANGED <<stores, now, req, blogPosts>>
  /\ UNCHANGED analyzerVars

\* await prisma.blogPost.deleteMany(...), and the deleteMany calls on the
\* seven tables that are not part of this model
HookDeleteBlogPosts ==
  /\ hook.pc = "deleteBlogPosts"
  /\ blogPosts' = {b \in blogPosts : b.storeId # hook.store}
  /\ hook' = [hook EXCEPT !.pc = "deleteStore"]
  /\ UNCHANGED <<stores, seoScans, now, req>>
  /\ UNCHANGED analyzerVars

\* await prisma.store.delete({ where: { id: store.id } }).  Rows that still
\* refer to the store are deleted with it or make the delete throw, according
\* to the relation's referential action.
HookDeleteStore ==
  /\ hook.pc = "deleteStore"
  /\ LET referred == \/ \E x \in seoScans : x.storeId = hook.store
                     \/ \E b \in blogPosts : b.storeId = hook.store
     IN  \E cascade \in BOOLEAN :
           IF (\E s \in stores : s.id = hook.store) /\ (referred => cascade)
           THEN /\ stores' = {s \in stores : s.id # hook.store}
                /\ seoScans' = {x \in seoScans : x.storeId # hook.store}
                /\ blogPosts' = {b \in blogPosts : b.storeId # hook.store}
                /\ hook' = [hook EXCEPT !.pc = "deleteSessions"]
           ELSE /\ hook' = [hook EXCEPT !.pc = "failed"]
                /\ UNCHANGED <<stores, seoScans, blogPosts>>
  /\ UNCHANGED <<now, req>>
  /\ UNCHANGED analyzerVars

\* await prisma.session.deleteMany({ where: { shop } }); the handler is done
HookDeleteSessions ==
  /\ hook.pc = "deleteSessions"
  /\ hook' = [hook EXCEPT !.pc = "done"]
  /\ UNCHANGED <<stores, seoScans, now, req, blogPosts>>
  /\ UNCHANGED analyzerVars

NextUninstall ==
  \/ HookFindStore
  \/ HookDeleteScans
  \/ HookDeleteBlogPosts
  \/ HookDeleteStore
  \/ HookDeleteSessions
  \/ \E r \in Requests :
       \/ SaveFindStore(r)
       \/ SaveCreateStore(r)
       \/ SaveCreateScan(r)
       \/ SaveUpdateStore(r)

SpecUninstall == InitUninstall /\ [][NextUninstall]_vars

(***************************************************************************)
(* Properties of the analyzer.                                             *)
(***************************************************************************)
Analyzed == analysis # NullObj

IssueIndexes(id) == {i \in DOMAIN analysis.issues : analysis.issues[i].id = id}

IssuesOfType(type) ==
  {i \in DOMAIN analysis.issues : analysis.issues[i].type = type}

\* the issue `id` is absent when n = 0, and present once with affectedPages = n
ReportsCount(id, n) ==
  IF n = 0
  THEN IssueIndexes(id) = {}
  ELSE /\ Cardinality(IssueIndexes(id)) = 1
       /\ \A i \in IssueIndexes(id) : analysis.issues[i].affectedPages = n

Clamped(x) == IF x < 0 THEN 0 ELSE IF x > 100 THEN 100 ELSE x

Missing(s) == s \in {NULL, 0}

\* every (product, image) pair and every featured image that lacks alt text
MissingAltTexts ==
  UNION { { <<i, j>> : j \in {k \in DOMAIN products[i].images :
                                 Missing(products[i].images[k].altText)} }
          : i \in DOMAIN products }
  \cup { <<i, 0>> : i \in {k \in DOMAIN products :
                             /\ products[k].featuredImage # NullObj
                             /\ Missing(products[k].featuredImage.altText)} }

\* C1: the four scores of every result are integers in [0, 100].
C1_ScoresInRange ==
  Analyzed =>
    /\ analysis.contentScore \in 0..100
    /\ analysis.accessibilityScore \in 0..100
    /\ analysis.performanceScore \in 0..100
    /\ analysis.overallScore \in 0..100

C1_Witness ==
  /\ Analyzed
  /\ Cardinality(MissingAltTexts) > 50
  /\ analysis.accessibilityScore = 0

\* C2: contentScore is 100 - 15*critical - 5*warning clamped to [0, 100], the
\* counts being those of the critical and warning issue records of the result,
\* whatever their category.
C2_ContentScore ==
  Analyzed =>
    analysis.contentScore =
      Clamped(100 - 15 * Cardinality(IssuesOfType("critical"))
                  - 5 * Cardinality(IssuesOfType("warning")))

C2_Witness ==
  /\ Analyzed
  /\ IssueIndexes("products-alt-text") # {}
  /\ \A i \in IssueIndexes("products-alt-text") :
       analysis.issues[i].category = "accessibility"
  /\ Cardinality(IssuesOfType("warning")) = 1
  /\ Cardinality(IssuesOfType("critical")) = 1
  /\ analysis.contentScore = 80

\* C3: accessibilityScore is 100 - 2*(missing product alt texts) clamped to
\* [0, 100]; it is a function of the products' image alt texts alone.
C3_AccessibilityScore ==
  Analyzed =>
    analysis.accessibilityScore = Clamped(100 - 2 * Cardinality(MissingAltTexts))

C3_Witness ==
  /\ Analyzed
  /\ Cardinality(MissingAltTexts) = 50
  /\ analysis.accessibilityScore = 0
  /\ collections # <<>>

\* C4: performanceScore is 80, and overallScore is the integer nearest to the
\* mean of the three sub-scores of the same result.
C4_OverallScore ==
  Analyzed =>
    /\ analysis.performanceScore = 80
    /\ LET sum == analysis.contentScore + analysis.accessibilityScore
                    + analysis.performanceScore
       IN  3 * analysis.overallScore - sum \in {-1, 0, 1}

C4_Witness ==
  /\ Analyzed
  /\ 3 * analysis.overallScore
       = analysis.contentScore + analysis.accessibilityScore
           + analysis.performanceScore + 1

\* C9: the products-alt-text issue reports the number of missing alt texts
\* (images without alt text plus featured images without alt text, over all
\* products), not the number of products.
C9_AltTextCounter ==
  Analyzed => ReportsCount("products-alt-text", Cardinality(MissingAltTexts))

C9_Witness ==
  /\ Analyzed
  /\ Len(products) = 1
  /\ products[1].featuredImage # NullObj
  /\ \E i \in IssueIndexes("products-alt-text") :
       analysis.issues[i].affectedPages = 2

\* C10: a product counts under products-meta-title only when both its SEO
\* title and its product title are missing; a collection or an article counts
\* under its meta-title rule whenever its SEO title is missing.
C10_MetaTitleRules ==
  Analyzed =>
    /\ ReportsCount("products-meta-title",
         Cardinality({i \in DOMAIN products :
            Missing(products[i].seo.title) /\ Missing(products[i].title)}))
    /\ ReportsCount("collections-meta-title",
         Cardinality({i \in DOMAIN collections :
            Missing(collections[i].seo.title)}))
    /\ ReportsCount("articles-meta-title",
         Cardinality({i \in DOMAIN articles :
            \/ articles[i].seo = NullObj
            \/ Missing(articles[i].seo.title)}))

C10_Witness ==
  /\ Analyzed
  /\ Len(products) = 1
  /\ Missing(products[1].seo.title)
  /\ ~Missing(products[1].title)
  /\ IssueIndexes("products-meta-title") = {}
  /\ IssueIndexes("collections-meta-title") # {}

(***************************************************************************)
(* Properties of the scan action and of the persistence of its result.     *)
(***************************************************************************)
\* the request r takes this step
Steps(r) == req'[r] # req[r]

ScansOfShop(shop) ==
  {x \in seoScans : \E s \in stores : s.shop = shop /\ x.storeId = s.id}

\* C5: a scan whose analyzeStoreSEO throws ends failed, and none of its steps
\* creates an SEOScan row or changes a store's seoScore or lastScanAt (so that
\* getLatestScan, which reads these two tables only, returns what it did).
C5_FailedScanKeepsPriorResult ==
  [][\A r \in Requests :
       (Steps(r) /\ req'[r].threw) =>
         /\ req'[r].pc = "failed"
         /\ seoScans' = seoScans
         /\ stores' = stores
    ]_vars

C5_Witness ==
  \E r \in Requests :
    /\ req[r].threw
    /\ req[r].pc = "failed"
    /\ getLatestScan(req[r].shop) # NullObj
    /\ \E s \in stores :
         /\ s.shop = req[r].shop
         /\ s.seoScore = getLatestScan(req[r].shop).overallScore

\* a request that has inserted its SEOScan row
HasSavedScan(r) == req[r].pc \in {"updateStore", "done"}

\* C6: a run in which one of the four calls failed or answered without data
\* fails as a whole: no SEOScan row comes from it.
C6_NoDegradedScanSaved ==
  \A r \in Requests :
    (req[r].threw \/ req[r].nodata # {}) => ~HasSavedScan(r)

\* C7: in every state the store's seoScore is the overallScore of the latest
\* SEOScan row of its shop.
C7_ScoreMatchesLatestScan ==
  \A s \in stores :
    getLatestScan(s.shop) # NullObj =>
      s.seoScore = getLatestScan(s.shop).overallScore

LatestIsGreatest(shop) ==
  IF ScansOfShop(shop) = {}
  THEN getLatestScan(shop) = NullObj
  ELSE /\ getLatestScan(shop) \in ScansOfShop(shop)
       /\ \A y \in ScansOfShop(shop) :
            y.createdAt <= getLatestScan(shop).createdAt

\* C8: every row of SEOScan stays as it was created, a save that completes has
\* added exactly one row, and getLatestScan returns the row of the shop with
\* the greatest createdAt (null without store or without scans).
C8_AppendOnlyHistory ==
  /\ [][/\ seoScans \subseteq seoScans'
        /\ \A r \in Requests :
             Steps(r) =>
               Cardinality(seoScans' \ seoScans) =
                 IF req[r].pc = "createScan" /\ req'[r].pc = "updateStore"
                 THEN 1 ELSE 0
        /\ \A r \in Requests :
             (Steps(r) /\ req'[r].pc = "done") => req[r].pc = "updateStore"
       ]_vars
  /\ [](\A shop \in Shops : LatestIsGreatest(shop))

C8_Witness ==
  \E shop \in Shops :
    /\ Cardinality(ScansOfShop(shop)) = 2
    /\ \A r \in Requests : req[r].pc = "done"
    /\ \E x, y \in ScansOfShop(shop) : x.overallScore # y.overallScore

(***************************************************************************)
(* Properties of the rule evaluator and of the issue synthesizer.          *)
(***************************************************************************)
Present(s) == ~Missing(s)

CountWhere(list, Test(_)) == Cardinality({i \in DOMAIN list : Test(list[i])})

\* affectedPages of the issue `id`, 0 when the result has no such issue
Affected(id) ==
  IF IssueIndexes(id) = {} THEN 0
  ELSE analysis.issues[CHOOSE i \in IssueIndexes(id) : TRUE].affectedPages

\* C11: the length rules compare the raw length with < : a product body
\* counts iff present (neither null nor empty) and shorter than 100, a
\* collection body iff absent or shorter than 50, a page body iff absent or
\* shorter than 100, an article body iff present and shorter than 500.
C11_LengthRules ==
  Analyzed =>
    /\ ReportsCount("products-short-description",
         CountWhere(products,
           LAMBDA p : Present(p.descriptionHtml) /\ p.descriptionHtml < 100))
    /\ ReportsCount("collections-description",
         CountWhere(collections,
           LAMBDA c : Missing(c.descriptionHtml) \/ c.descriptionHtml < 50))
    /\ ReportsCount("pages-content",
         CountWhere(pages, LAMBDA g : Missing(g.body) \/ g.body < 100))
    /\ ReportsCount("articles-short-content",
         CountWhere(articles,
           LAMBDA a : Present(a.contentHtml) /\ a.contentHtml < 500))

C11_Witness ==
  /\ Analyzed
  /\ Len(pages) = 1
  /\ pages[1].body = 100
  /\ IssueIndexes("pages-content") = {}
  /\ Affected("products-short-description") = 1

\* C12 as stated: an empty body is short, so a product (an article) whose body
\* is the empty string counts under products-short-description
\* (articles-short-content): the rule counts every non-null body under the
\* threshold.
C12_EmptyBodyIsShort ==
  Analyzed =>
    /\ ReportsCount("products-short-description",
         CountWhere(products,
           LAMBDA p : p.descriptionHtml # NULL /\ p.descriptionHtml < 100))
    /\ ReportsCount("articles-short-content",
         CountWhere(articles,
           LAMBDA a : a.contentHtml # NULL /\ a.contentHtml < 500))

\* C12 as amended: an empty string is missing wherever null is.  No product
\* and no article with an empty body counts as short; every collection and
\* every page with an empty body counts as lacking its description / content.
C12_EmptyBodyIsMissing ==
  Analyzed =>
    /\ Affected("products-short-description")
         <= CountWhere(products, LAMBDA p : p.descriptionHtml # 0)
    /\ Affected("articles-short-content")
         <= CountWhere(articles, LAMBDA a : a.contentHtml # 0)
    /\ Affected("collections-description")
         >= CountWhere(collections, LAMBDA c : c.descriptionHtml = 0)
    /\ Affected("pages-content")
         >= CountWhere(pages, LAMBDA g : g.body = 0)

C12_Witness ==
  /\ Analyzed
  /\ Len(products) = 1
  /\ products[1].descriptionHtml = 0
  /\ IssueIndexes("products-short-description") = {}
  /\ Affected("collections-description") = 1
  /\ collections[1].descriptionHtml = 0

\* a null string replaced by the empty string
NullToEmpty(s) == IF s = NULL THEN 0 ELSE s

EmptySeo(seo) ==
  IF seo = NullObj THEN seo
  ELSE [title |-> NullToEmpty(seo.title),
        description |-> NullToEmpty(seo.description)]

EmptyAlt(img) ==
  IF img = NullObj THEN img ELSE [altText |-> NullToEmpty(img.altText)]

\* the four lists with every null meta title, meta description, body and
\* alt text replaced by the empty string
ProductsNullToEmpty ==
  [i \in DOMAIN products |->
     [products[i] EXCEPT !.seo = EmptySeo(@),
                         !.descriptionHtml = NullToEmpty(@),
                         !.featuredImage = EmptyAlt(@),
                         !.images = [j \in DOMAIN @ |-> EmptyAlt(@[j])]]]

CollectionsNullToEmpty ==
  [i \in DOMAIN collections |->
     [collections[i] EXCEPT !.seo = EmptySeo(@),
                            !.descriptionHtml = NullToEmpty(@)]]

PagesNullToEmpty ==
  [i \in DOMAIN pages |-> [pages[i] EXCEPT !.body = NullToEmpty(@)]]

ArticlesNullToEmpty ==
  [i \in DOMAIN articles |->
     [articles[i] EXCEPT !.seo = EmptySeo(@),
                         !.contentHtml = NullToEmpty(@)]]

\* C13: null and the empty string are interchangeable: the result of an input
\* equals the result of the same input with every null meta title, meta
\* description, body and alt text replaced by "" (two inputs that differ only
\* in null against "" have the same replacement, hence the same result).
C13_NullEqualsEmpty ==
  Analyzed =>
    analysis = analyzeStoreSEO(ProductsNullToEmpty, CollectionsNullToEmpty,
                               PagesNullToEmpty, ArticlesNullToEmpty)

C13_Witness ==
  /\ Analyzed
  /\ Len(products) = 1
  /\ products[1].seo.description = NULL
  /\ products[1].descriptionHtml = NULL
  /\ Len(products[1].images) = 1
  /\ products[1].images[1].altText = NULL
  /\ ProductsNullToEmpty # products

\* the eleven rules in the order in which the code checks them
RuleOrder ==
  << "products-meta-title", "products-meta-description", "products-alt-text",
     "products-short-description", "collections-meta-title",
     "collections-meta-description", "collections-description",
     "pages-content", "articles-meta-title", "articles-meta-description",
     "articles-short-content" >>

SuccessOrder == << "products-meta-title-good", "products-alt-text-good" >>

SeoMissing(node, field) == node.seo = NullObj \/ Missing(node.seo[field])

\* the number of violations of the rule `id` in the analysed input
RuleCount(id) ==
  CASE id = "products-meta-title" ->
         CountWhere(products,
                    LAMBDA p : Missing(p.seo.title) /\ Missing(p.title))
    [] id = "products-meta-description" ->
         CountWhere(products, LAMBDA p : Missing(p.seo.description))
    [] id = "products-alt-text" -> Cardinality(MissingAltTexts)
    [] id = "products-short-description" ->
         CountWhere(products,
           LAMBDA p : Present(p.descriptionHtml) /\ p.descriptionHtml < 100)
    [] id = "collections-meta-title" ->
         CountWhere(collections, LAMBDA c : Missing(c.seo.title))
    [] id = "collections-meta-description" ->
         CountWhere(collections, LAMBDA c : Missing(c.seo.description))
    [] id = "collections-description" ->
         CountWhere(collections,
           LAMBDA c : Missing(c.descriptionHtml) \/ c.descriptionHtml < 50)
    [] id = "pages-content" ->
         CountWhere(pages, LAMBDA g : Missing(g.body) \/ g.body < 100)
    [] id = "articles-meta-title" ->
         CountWhere(articles, LAMBDA a : SeoMissing(a, "title"))
    [] id = "articles-meta-description" ->
         CountWhere(articles, LAMBDA a : SeoMissing(a, "description"))
    [] id = "articles-short-content" ->
         CountWhere(articles,
           LAMBDA a : Present(a.contentHtml) /\ a.contentHtml < 500)

\* C14: a rule whose counter is zero has no issue; a rule whose counter is
\* nonzero has exactly one issue, with affectedPages equal to the counter and
\* fixable = true; no id occurs twice in a result.
C14_OneIssuePerViolatedRule ==
  Analyzed =>
    /\ \A k \in DOMAIN RuleOrder :
         /\ ReportsCount(RuleOrder[k], RuleCount(RuleOrder[k]))
         /\ \A i \in IssueIndexes(RuleOrder[k]) : analysis.issues[i].fixable
    /\ \A i, j \in DOMAIN analysis.issues :
         analysis.issues[i].id = analysis.issues[j].id => i = j

C14_Witness ==
  /\ Analyzed
  /\ Affected("collections-meta-title") = 2
  /\ Affected("products-alt-text") = 1
  /\ Affected("articles-short-content") = 1
  /\ IssueIndexes("pages-content") = {}
  /\ Len(pages) > 0

\* C15: products-meta-title-good is emitted iff no product misses its meta
\* title and there is a product, products-alt-text-good iff no alt text is
\* missing and there is a product; no other success issue exists, and a
\* success issue has no affectedPages and is not fixable.
C15_SuccessIssues ==
  Analyzed =>
    /\ Cardinality(IssueIndexes("products-meta-title-good")) =
         IF RuleCount("products-meta-title") = 0 /\ Len(products) > 0
         THEN 1 ELSE 0
    /\ Cardinality(IssueIndexes("products-alt-text-good")) =
         IF RuleCount("products-alt-text") = 0 /\ Len(products) > 0
         THEN 1 ELSE 0
    /\ \A i \in IssuesOfType("success") :
         /\ analysis.issues[i].id \in
              {"products-meta-title-good", "products-alt-text-good"}
         /\ "affectedPages" \notin DOMAIN analysis.issues[i]
         /\ ~analysis.issues[i].fixable
    /\ \A i \in DOMAIN analysis.issues :
         analysis.issues[i].id \in
           {"products-meta-title-good", "products-alt-text-good"}
         => analysis.issues[i].type = "success"
    /\ analysis.goodResults = Cardinality(IssuesOfType("success"))

C15_Witness ==
  /\ Analyzed
  /\ Len(products) > 0
  /\ IssueIndexes("products-meta-title-good") # {}
  /\ IssueIndexes("products-alt-text-good") = {}
  /\ Len(collections) > 0
  /\ RuleCount("collections-meta-title") = 0

\* the position of an id in the output order: the eleven rules, then the two
\* success issues
OutputOrder == RuleOrder \o SuccessOrder

Rank(id) == CHOOSE k \in DOMAIN OutputOrder : OutputOrder[k] = id

\* C16: the issues come in the fixed rule order, whatever their severity and
\* affected count, and every success issue comes after every other issue, the
\* meta-title one before the alt-text one.
C16_IssueOrder ==
  Analyzed =>
    /\ \A i \in DOMAIN analysis.issues :
         \E k \in DOMAIN OutputOrder : OutputOrder[k] = analysis.issues[i].id
    /\ \A i, j \in DOMAIN analysis.issues :
         i < j => Rank(analysis.issues[i].id) < Rank(analysis.issues[j].id)
    /\ \A i, j \in DOMAIN analysis.issues :
         /\ analysis.issues[i].type # "success"
         /\ analysis.issues[j].type = "success"
         => i < j

\* a warning with a larger count precedes a critical issue, which precedes a
\* success issue
C16_Witness ==
  /\ Analyzed
  /\ \E i, j, k \in DOMAIN analysis.issues :
       /\ i < j /\ j < k
       /\ analysis.issues[i].type = "warning"
       /\ analysis.issues[j].type = "critical"
       /\ analysis.issues[i].affectedPages > analysis.issues[j].affectedPages
       /\ analysis.issues[k].type = "success"

(***************************************************************************)
(* Scenarios.                                                              *)
(***************************************************************************)
OnlyProducts == Len(collections) = 0 /\ Len(pages) = 0 /\ Len(articles) = 0

\* the issue `id` is in the result once, with this type and this count
HasIssue(id, type, n) ==
  /\ Cardinality(IssueIndexes(id)) = 1
  /\ \A i \in IssueIndexes(id) :
       /\ analysis.issues[i].type = type
       /\ analysis.issues[i].affectedPages = n

\* one product with no SEO title, no SEO description, a 10-character body and
\* one image, which has no alt text
OneProductMissingEverything ==
  /\ Len(products) = 1
  /\ OnlyProducts
  /\ Missing(products[1].seo.title)
  /\ Missing(products[1].seo.description)
  /\ products[1].descriptionHtml = 10
  /\ products[1].featuredImage = NullObj
  /\ Len(products[1].images) = 1
  /\ Missing(products[1].images[1].altText)

MissingEverythingResult ==
  /\ HasIssue("products-meta-title", "critical", 1)
  /\ HasIssue("products-meta-description", "critical", 1)
  /\ HasIssue("products-short-description", "warning", 1)
  /\ HasIssue("products-alt-text", "warning", 1)
  /\ analysis.criticalIssues = 2
  /\ analysis.improvements = 2
  /\ analysis.contentScore = 60
  /\ analysis.accessibilityScore = 98
  /\ analysis.overallScore = 79

\* C17 as stated: one product with no meta title, no meta description, a
\* 10-character body and one image without alt text yields the four issues,
\* 2 critical, 2 warnings and the scores 60 / 98 / 79.
C17_MissingEverythingAsStated ==
  Analyzed /\ OneProductMissingEverything => MissingEverythingResult

\* C17 as amended: the same product, whose product title is missing too,
\* yields the four issues, 2 critical, 2 warnings and the scores 60 / 98 / 79.
C17_MissingEverythingUntitled ==
  Analyzed /\ OneProductMissingEverything /\ Missing(products[1].title)
    => MissingEverythingResult

C17_Witness ==
  /\ Analyzed
  /\ OneProductMissingEverything
  /\ Missing(products[1].title)
  /\ analysis.overallScore = 79

\* C18: the empty input yields crawledPages 0, no issue at all, zero critical
\* issues, improvements and good results, and the scores 100 / 100 / 93.
C18_EmptyInput ==
  Analyzed /\ Len(products) = 0 /\ OnlyProducts =>
    /\ analysis.crawledPages = 0
    /\ analysis.issues = <<>>
    /\ analysis.criticalIssues = 0
    /\ analysis.improvements = 0
    /\ analysis.goodResults = 0
    /\ analysis.contentScore = 100
    /\ analysis.accessibilityScore = 100
    /\ analysis.overallScore = 93

C18_Witness ==
  /\ Analyzed
  /\ Len(products) = 0
  /\ OnlyProducts
  /\ analysis.overallScore = 93

\* one product with an SEO title, an SEO description, a 150-character body
\* and an image with alt text (its featured image, if any, has alt text too)
OneCleanProduct ==
  /\ Len(products) = 1
  /\ OnlyProducts
  /\ Present(products[1].seo.title)
  /\ Present(products[1].seo.description)
  /\ products[1].descriptionHtml = 150
  /\ Len(products[1].images) = 1
  /\ Present(products[1].images[1].altText)
  /\ \/ products[1].featuredImage = NullObj
     \/ Present(products[1].featuredImage.altText)

\* C19: a single clean product yields no critical issue and no warning, both
\* success issues (goodResults = 2) and content and accessibility scores 100.
C19_CleanProduct ==
  Analyzed /\ OneCleanProduct =>
    /\ analysis.criticalIssues = 0
    /\ analysis.improvements = 0
    /\ IssuesOfType("critical") = {}
    /\ IssuesOfType("warning") = {}
    /\ analysis.goodResults = 2
    /\ Cardinality(IssueIndexes("products-meta-title-good")) = 1
    /\ Cardinality(IssueIndexes("products-alt-text-good")) = 1
    /\ analysis.contentScore = 100
    /\ analysis.accessibilityScore = 100

C19_Witness ==
  /\ Analyzed
  /\ OneCleanProduct
  /\ products[1].featuredImage # NullObj
  /\ Len(analysis.issues) = 2

(***************************************************************************)
(* Monotonicity of the scores.                                             *)
(***************************************************************************)
NoAlt == [altText |-> NULL]

\* the product lists that differ from `products` by one more image without
\* alt text: one image added to a product that has fewer than the 10 images
\* the query fetches, a featured image added, or one alt text removed
OneMoreMissingAltText ==
  { [products EXCEPT ![i].images = Append(@, NoAlt)] :
      i \in {k \in DOMAIN products :
               Len(products[k].images) < ImagesPerProduct} }
  \cup { [products EXCEPT ![i].featuredImage = NoAlt] :
      i \in {k \in DOMAIN products :
               \/ products[k].featuredImage = NullObj
               \/ Present(products[k].featuredImage.altText)} }
  \cup UNION { { [products EXCEPT ![i].images[j] = NoAlt] :
                   j \in {k \in DOMAIN products[i].images :
                            Present(products[i].images[k].altText)} }
               : i \in DOMAIN products }

\* a collection that lacks only its SEO title
UntitledCollection ==
  [ seo |-> [title |-> NULL, description |-> 5], descriptionHtml |-> 100 ]

\* the inputs that differ from the analysed one by one edit that can add a
\* critical issue: a collection without SEO title added, the SEO title of a
\* collection removed, the SEO description of a product removed, both titles
\* of a product removed
OneEditAway ==
  { Input(products, Append(collections, UntitledCollection), pages, articles) }
  \cup { Input(products, [collections EXCEPT ![i].seo.title = NULL],
               pages, articles) : i \in DOMAIN collections }
  \cup { Input([products EXCEPT ![i].seo.description = NULL],
               collections, pages, articles) : i \in DOMAIN products }
  \cup { Input([products EXCEPT ![i].seo.title = NULL, ![i].title = 0],
               collections, pages, articles) : i \in DOMAIN products }

Rerun(in) ==
  analyzeStoreSEO(in.products, in.collections, in.pages, in.articles)

OneMoreCritical(after) ==
  /\ after.criticalIssues = analysis.criticalIssues + 1
  /\ after.improvements = analysis.improvements

\* C20: with the number of warnings fixed, one more critical issue never
\* raises contentScore, and one more product image without alt text never
\* raises accessibilityScore.
C20_Monotonicity ==
  Analyzed =>
    /\ ContentScore(analysis.criticalIssues + 1, analysis.improvements)
         <= analysis.contentScore
    /\ \A in \in OneEditAway :
         OneMoreCritical(Rerun(in))
           => Rerun(in).contentScore <= analysis.contentScore
    /\ AccessibilityScore(Cardinality(MissingAltTexts) + 1)
         <= analysis.accessibilityScore
    /\ \A ps \in OneMoreMissingAltText :
         analyzeStoreSEO(ps, collections, pages, articles).accessibilityScore
           <= analysis.accessibilityScore

\* the fiftieth and the fifty-first missing alt text both give 0, and an
\* added critical issue costs 15 points
C20_Witness ==
  /\ Analyzed
  /\ Cardinality(MissingAltTexts) = 50
  /\ analysis.accessibilityScore = 0
  /\ OneMoreMissingAltText # {}
  /\ \E in \in OneEditAway :
       /\ OneMoreCritical(Rerun(in))
       /\ Rerun(in).contentScore = analysis.contentScore - 15

(***************************************************************************)
(* Determinism, tallies, isolation of the rules, score ranges.             *)
(***************************************************************************)
\* the run of request r has returned a result that is not yet saved
HasResult(r) == req[r].input # NullObj /\ req[r].result # NullObj

C22_TalliesMatchIssues ==
  Analyzed =>
    /\ analysis.criticalIssues = Cardinality(IssuesOfType("critical"))
    /\ analysis.improvements = Cardinality(IssuesOfType("warning"))
    /\ analysis.goodResults = Cardinality(IssuesOfType("success"))
    /\ analysis.criticalIssues + analysis.improvements + analysis.goodResults
         = Len(analysis.issues)
    /\ IssuesOfType("info") = {}
    /\ analysis.crawledPages =
         Len(products) + Len(collections) + Len(pages) + Len(articles)

C22_Witness ==
  /\ Analyzed
  /\ analysis.criticalIssues = 2
  /\ analysis.improvements = 5
  /\ analysis.goodResults = 1
  /\ analysis.crawledPages = 4

ProductRules ==
  { "products-meta-title", "products-meta-description", "products-alt-text",
    "products-short-description", "products-meta-title-good",
    "products-alt-text-good" }

CollectionRules ==
  { "collections-meta-title", "collections-meta-description",
    "collections-description" }

PageRules == { "pages-content" }

ArticleRules ==
  { "articles-meta-title", "articles-meta-description",
    "articles-short-content" }

ProductCounters ==
  { "productsMissingMetaTitle", "productsMissingMetaDescription",
    "productsMissingAltText", "productsShortDescription" }

CollectionCounters ==
  { "collectionsMissingMetaTitle", "collectionsMissingMetaDescription",
    "collectionsMissingDescription" }

PageCounters == { "pagesMissingContent" }

ArticleCounters ==
  { "articlesMissingMetaTitle", "articlesMissingMetaDescription",
    "articlesShortContent" }

\* the issues of `result` that belong to the rules `ids`, in their order
IssuesAmong(result, ids) ==
  SelectSeq(result.issues, LAMBDA i : i.id \in ids)

\* the counters `names` and the issues `ids` are those of the input `in`
SameAsIn(in, names, ids) ==
  /\ \A n \in names :
       Counters(products, collections, pages, articles)[n] =
         Counters(in.products, in.collections, in.pages, in.articles)[n]
  /\ IssuesAmong(analysis, ids) = IssuesAmong(Rerun(in), ids)

\* C23: the counters and the issues of the rules of one resource type are
\* those of the input that keeps only the list of that type, so they are the
\* same for any two inputs that agree on that list.
C23_RulesIsolatedByType ==
  Analyzed =>
    /\ SameAsIn(Input(products, <<>>, <<>>, <<>>),
                ProductCounters, ProductRules)
    /\ SameAsIn(Input(<<>>, collections, <<>>, <<>>),
                CollectionCounters, CollectionRules)
    /\ SameAsIn(Input(<<>>, <<>>, pages, <<>>), PageCounters, PageRules)
    /\ SameAsIn(Input(<<>>, <<>>, <<>>, articles),
                ArticleCounters, ArticleRules)

C23_Witness ==
  /\ Analyzed
  /\ Len(products) > 0 /\ Len(collections) > 0
  /\ Len(pages) > 0 /\ Len(articles) > 0
  /\ IssuesAmong(analysis, ProductRules) # <<>>
  /\ IssuesAmong(analysis, CollectionRules) # <<>>
  /\ IssuesAmong(analysis, ArticleRules) = <<>>

\* the inputs that repeat one resource of the analysed input
OneResourceRepeated ==
  { Input(Append(products, products[i]), collections, pages, articles) :
      i \in DOMAIN products }
  \cup { Input(products, Append(collections, collections[i]), pages, articles) :
      i \in DOMAIN collections }
  \cup { Input(products, collections, Append(pages, pages[i]), articles) :
      i \in DOMAIN pages }
  \cup { Input(products, collections, pages, Append(articles, articles[i])) :
      i \in DOMAIN articles }

ViolatedRules == {k \in DOMAIN RuleOrder : RuleCount(RuleOrder[k]) > 0}

CriticalRules ==
  { "products-meta-title", "products-meta-description",
    "collections-meta-title" }

\* C24: contentScore is a function of the set of rules with a nonzero
\* counter (15 for each critical rule, 5 for each other one), and a further
\* resource that violates what one resource already violates leaves it
\* unchanged.
C24_ContentScoreCountsRules ==
  Analyzed =>
    /\ analysis.contentScore =
         100 - 15 * Cardinality({k \in ViolatedRules :
                                   RuleOrder[k] \in CriticalRules})
             - 5 * Cardinality({k \in ViolatedRules :
                                  RuleOrder[k] \notin CriticalRules})
    /\ \A in \in OneResourceRepeated :
         Rerun(in).contentScore = analysis.contentScore

C24_Witness ==
  /\ Analyzed
  /\ Affected("collections-meta-title") = 2
  /\ Affected("pages-content") = 2
  /\ analysis.contentScore < 100
  /\ OneResourceRepeated # {}

\* C25: a result has at most 3 critical issues and 8 warnings, contentScore
\* is at least 15 and overallScore lies in [32, 93].
C25_ScoreBounds ==
  Analyzed =>
    /\ analysis.criticalIssues <= 3
    /\ analysis.improvements <= 8
    /\ analysis.contentScore >= 15
    /\ analysis.overallScore >= 32
    /\ analysis.overallScore <= 93

C25_Witness ==
  /\ Analyzed
  /\ analysis.criticalIssues = 3
  /\ analysis.improvements = 8
  /\ analysis.contentScore = 15
  /\ analysis.accessibilityScore = 0
  /\ analysis.overallScore = 32

\* C26: the issue of a product rule and its success issue never occur
\* together, and when there is a product exactly one of the two occurs.
C26_ProblemOrSuccess ==
  Analyzed =>
    \A id \in {"products-meta-title", "products-alt-text"} :
      LET problem == Cardinality(IssueIndexes(id))
          success == Cardinality(IssueIndexes(id \o "-good"))
      IN  /\ problem + success <= 1
          /\ Len(products) > 0 => problem + success = 1

C26_Witness ==
  /\ Analyzed
  /\ Len(products) > 0
  /\ IssueIndexes("products-meta-title-good") # {}
  /\ IssueIndexes("products-meta-title") = {}
  /\ IssueIndexes("products-alt-text") # {}
  /\ IssueIndexes("products-alt-text-good") = {}

(***************************************************************************)
(* Properties of the credits, of the store rows and of the uninstall.      *)
(***************************************************************************)
\* C27: the aiCredits of a store are never negative.
C27_CreditsNeverNegative == \A s \in stores : s.aiCredits >= 0

Finished(r) == req[r].pc \in {"done", "failed", "refused", "notFound"}

\* C28: a generate request that ended in failure has left no BlogPost row,
\* and once every request has ended there are as many BlogPost rows as
\* requests that deducted their credit.
C28_FailedGenerateLeavesNothing ==
  /\ \A r \in Requests :
       req[r].pc \in {"failed", "refused", "notFound"}
         => \A b \in blogPosts : b.primaryKeyword # r
  /\ (\A r \in Requests : Finished(r))
       => Cardinality(blogPosts) =
            Cardinality({r \in Requests : req[r].pc = "done"})

\* C29: a shop has at most one Store row, and the create of the
\* find-then-create step never fails.
C29_FindOrCreateStore ==
  /\ [](\A s, t \in stores : s.shop = t.shop => s = t)
  /\ [][\A r \in Requests :
          req[r].pc = "createStore" => req'[r].pc # "failed"]_vars

\* C30: once the uninstall handler is done, the shop has no Store row and no
\* SEOScan row.
C30_UninstallLeavesNothing ==
  hook.pc = "done" =>
    /\ \A shop \in Shops : FindStore(shop) = NullObj
    /\ seoScans = {}

====
